---- MODULE Spec2Model ----
(***************************************************************************)
(* A model of the lm75 driver: the driver facade of src/src/device_impl.rs *)
(* (cached configuration, bus transactions, error propagation), the        *)
(* address resolver of src/src/lib.rs and the value conversions of         *)
(* src/src/conversion.rs.                                                  *)
(*                                                                         *)
(* Temperatures are f32 in the source.  They are modelled as integers in   *)
(* units of 1/Scale degree Celsius.  Every operation the source applies to *)
(* a temperature (comparison with -55.0 and 125.0, division by 0.125,      *)
(* truncating cast to i16, multiplication by 0.125, addition) is exact on  *)
(* this grid.                                                              *)
(***************************************************************************)
EXTENDS Integers, Sequences, FiniteSets, TLC

VARIABLES
    ic,         \* variant tag of the instance (PhantomData<IC>)
    slave,      \* the address selector given at construction
    address,    \* Xx75.address
    config,     \* Xx75.config.bits, the cached configuration
    devConfig,  \* bus side: last byte the device accepted for register 0x01
    call,       \* the facade call that ran last, with the state it started from
    result,     \* what that call returned
    trans,      \* the bus transactions that call issued, in order
    pc,         \* the caller: "ready" to call, or holding a call's result
    codec       \* state of the conversion-function harness

vars == <<ic, slave, address, config, devConfig, call, result, trans, pc, codec>>

(***************************************************************************)
(* Bounds of the model.                                                    *)
(***************************************************************************)
\* number of distinct error values the bus transport can fail with
NumBusErrors == 2
\* temperature inputs of the facade reach this many eighths of a degree past
\* each limit
Margin == 4
\* the conversion harness feeds temperatures up to this many degrees from zero
CodecSpan == 128

\* units per degree Celsius: 1/40 degree refines both the 0.125 register step
\* and the 0.025 decimal grid that holds 2.4, 2.6 and -55.5
Scale == 8 * 5

(***************************************************************************)
(* Integer casts and bit operations.                                       *)
(***************************************************************************)
U8 == 2 ^ 8
U16 == 2 ^ 16

RECURSIVE BitAnd(_, _)
BitAnd(a, b) ==
    IF a = 0 \/ b = 0 THEN 0
    ELSE (a % 2) * (b % 2) + 2 * BitAnd(a \div 2, b \div 2)

RECURSIVE BitOr(_, _)
BitOr(a, b) ==
    IF a = 0 THEN b
    ELSE IF b = 0 THEN a
    ELSE (IF a % 2 = 1 \/ b % 2 = 1 THEN 1 ELSE 0) + 2 * BitOr(a \div 2, b \div 2)

\* !mask on u8
BitNot8(a) == (U8 - 1) - a

\* x as u8, x as u16 (wrapping)
AsU8(x) == x % U8
AsU16(x) == x % U16
\* b as i8: two's complement reading of a byte
AsI8(b) == IF b >= 128 THEN b - U8 ELSE b

\* Bit k of byte b
Bit(b, k) == (b \div (2 ^ k)) % 2

(***************************************************************************)
(* Registers and configuration bits.                                       *)
(***************************************************************************)
TEMPERATURE == 0
CONFIGURATION == 1
T_HYST == 2
T_OS == 3
T_IDLE == 4

SHUTDOWN == 1
COMP_INT == 2
OS_POLARITY == 4
FAULT_QUEUE0 == 8
FAULT_QUEUE1 == 16

DEVICE_BASE_ADDRESS == 72

\* a slip that stores the mask instead of setting it
with_high_overwrite(bits, mask) == mask

with_high(bits, mask) == BitOr(bits, mask)

\* a slip that forgets to invert the mask
with_low_no_invert(bits, mask) == BitAnd(bits, mask)

with_low(bits, mask) == BitAnd(bits, BitNot8(mask))

\* Config::default()
ConfigDefault == 0

Variants == {"Lm75", "Pct2075"}
FaultQueues == {"_1", "_2", "_4", "_6"}
OsPolarities == {"ActiveLow", "ActiveHigh"}
OsModes == {"Comparator", "Interrupt"}

(***************************************************************************)
(* Address resolution.                                                     *)
(***************************************************************************)
BoolToU8(b) == IF b THEN 1 ELSE 0

SlaveAddrs ==
    {[tag |-> "Default", a2 |-> FALSE, a1 |-> FALSE, a0 |-> FALSE]}
    \cup {[tag |-> "Alternative", a2 |-> x, a1 |-> y, a0 |-> z] :
            x \in BOOLEAN, y \in BOOLEAN, z \in BOOLEAN}

\* a slip that reads pin A1 where A0 is meant
addr_a1_twice(s, default) ==
    IF s.tag = "Default" THEN default
    ELSE BitOr(default,
               BitOr(BoolToU8(s.a2) * 4,
                     BitOr(BoolToU8(s.a1) * 2, BoolToU8(s.a1))))

addr(s, default) ==
    IF s.tag = "Default" THEN default
    ELSE BitOr(default,
               BitOr(BoolToU8(s.a2) * 4,
                     BitOr(BoolToU8(s.a1) * 2, BoolToU8(s.a0))))

(***************************************************************************)
(* Value conversions (src/src/conversion.rs).                              *)
(***************************************************************************)
\* BitMasks::RESOLUTION_9BIT: the literal 0b11111111_100000000 as written
\* (eight ones, a one, eight zeros: 130816), held in a u16.
RESOLUTION_9BIT == AsU16(130816)
\* BitMasks::RESOLUTION_11BIT is used by conversion.rs and defined nowhere in
\* the sources: the top three bits of the low byte are significant.
RESOLUTION_11BIT == 65504
SAMPLE_RATE_MASK == 31

ResolutionMasks == {RESOLUTION_9BIT, RESOLUTION_11BIT}

\* a / b truncated toward zero, b > 0
TruncDiv(a, b) == IF a >= 0 THEN a \div b ELSE -((-a) \div b)

\* f32 as i16: truncates toward zero and saturates
F32AsI16(x) == IF x > 32767 THEN 32767 ELSE IF x < -32768 THEN -32768 ELSE x

convert_temp_from_register(msb, lsb, mask) ==
    LET m == AsI8(msb) * Scale
        decimal == (BitAnd(lsb, AsU8(mask)) \div 32) * (Scale \div 8)
    IN  m + decimal

\* f32 as u16: truncates toward zero and saturates (a negative value gives 0)
F32AsU16(x) == IF x > 65535 THEN 65535 ELSE IF x < 0 THEN 0 ELSE x

\* a slip that casts the quotient straight to u16
convert_temp_to_register_unsigned(temp, mask) ==
    LET int == F32AsU16(TruncDiv(temp * 8, Scale))
        binary == AsU16(int * 32)
    IN  <<AsU8(binary \div 256), AsU8(BitAnd(binary, mask))>>

\* a slip that rounds the quotient to the nearest integer
convert_temp_to_register_round(temp, mask) ==
    LET int == AsU16(F32AsI16((2 * temp * 8 + Scale) \div (2 * Scale)))
        binary == AsU16(int * 32)
    IN  <<AsU8(binary \div 256), AsU8(BitAnd(binary, mask))>>

convert_temp_to_register(temp, mask) ==
    LET int == AsU16(F32AsI16(TruncDiv(temp * 8, Scale)))
        binary == AsU16(int * 32)
        msb == AsU8(binary \div 256)
        lsb == AsU8(BitAnd(binary, mask))
    IN  <<msb, lsb>>

\* a slip that forgets the mask
convert_sample_rate_from_register_no_mask(byte) == byte * 100

convert_sample_rate_from_register(byte) == BitAnd(byte, SAMPLE_RATE_MASK) * 100

convert_sample_rate_to_register(period) == AsU8(period \div 100)

(***************************************************************************)
(* The bus transport (embedded_hal::blocking::i2c Write / WriteRead).      *)
(* A transaction succeeds or fails with one of the transport's errors.     *)
(***************************************************************************)
BusErrors == 1..NumBusErrors

WriteOutcomes ==
    {[ok |-> TRUE, err |-> 0, reply |-> <<>>]}
    \cup {[ok |-> FALSE, err |-> e, reply |-> <<>>] : e \in BusErrors}

\* reply bytes the device may return for the two-byte temperature register
ReplyMsbs == {0, 25, 125, 127, 128, 201, 231, 255}
ReplyLsbs == {0, 32, 90, 128, 165, 218, 224, 255}
TemperatureReplies == {<<m, l>> : m \in ReplyMsbs, l \in ReplyLsbs}
\* reply bytes for the one-byte idle register
IdleReplies == {<<b>> : b \in 0..(U8 - 1)}

ReadOutcomes(replies) ==
    {[ok |-> TRUE, err |-> 0, reply |-> r] : r \in replies}
    \cup {[ok |-> FALSE, err |-> e, reply |-> <<>>] : e \in BusErrors}

\* i2c.write(address, bytes) with outcome o
WriteTx(a, bytes, o) ==
    [kind |-> "write", addr |-> a, bytes |-> bytes, read |-> 0,
     ok |-> o.ok, err |-> o.err, reply |-> o.reply]

\* i2c.write_read(address, bytes, buffer of n bytes) with outcome o
WriteReadTx(a, bytes, n, o) ==
    [kind |-> "write_read", addr |-> a, bytes |-> bytes, read |-> n,
     ok |-> o.ok, err |-> o.err, reply |-> o.reply]

(***************************************************************************)
(* Results of a facade call: Result<T, Error<E>>.                          *)
(***************************************************************************)
NoResult == [kind |-> "None", err |-> 0, val |-> 0]
Ok(v) == [kind |-> "Ok", err |-> 0, val |-> v]
InvalidInputData == [kind |-> "InvalidInputData", err |-> 0, val |-> 0]

\* a slip that reports a transport failure as invalid input
ErrorI2C_as_invalid_input(e) == InvalidInputData

\* .map_err(Error::I2C)
ErrorI2C(e) == [kind |-> "I2C", err |-> e, val |-> 0]

\* SampleRateSupport::check_period_is_appropriate
check_period_is_appropriate(period) ==
    IF period > 3100 \/ period % 100 # 0
    THEN InvalidInputData
    ELSE Ok(0)

NoCall == [op |-> "new", sel |-> "", num |-> 0, cfg0 |-> ConfigDefault, dev0 |-> <<>>]
Call(op, sel, num) ==
    [op |-> op, sel |-> sel, num |-> num, cfg0 |-> config, dev0 |-> devConfig]

\* a call runs when the caller is ready and returns to the caller
Returns == pc = "ready" /\ pc' = "returned"

CodecIdle ==
    [stage |-> "idle", mask |-> 0, msb |-> 0, lsb |-> 0, temp |-> 0,
     msb2 |-> 0, lsb2 |-> 0, temp2 |-> 0, period |-> 0, valid |-> NoResult]

(***************************************************************************)
(* The driver facade (src/src/device_impl.rs).                             *)
(***************************************************************************)
\* the resolution mask the facade converts with on each variant
ResolutionMask(v) == IF v = "Lm75" THEN RESOLUTION_9BIT ELSE RESOLUTION_11BIT

\* Xx75::new / Xx75::new_pct2075
Init ==
    /\ ic \in Variants
    /\ slave \in SlaveAddrs
    /\ address = addr(slave, DEVICE_BASE_ADDRESS)
    /\ config = ConfigDefault
    /\ devConfig = <<>>
    /\ call = NoCall
    /\ result = NoResult
    /\ trans = <<>>
    /\ pc = "ready"
    /\ codec = CodecIdle

\* a slip that commits the cached configuration before the write
write_config_commit_first(c) ==
    \E o \in WriteOutcomes :
        /\ trans' = <<WriteTx(address, <<CONFIGURATION, c>>, o)>>
        /\ config' = c
        /\ devConfig' = IF o.ok THEN <<c>> ELSE devConfig
        /\ result' = IF o.ok THEN Ok(0) ELSE ErrorI2C(o.err)

\* a slip that repeats a failed write once
write_config_retry(c) ==
    \E o \in WriteOutcomes, o2 \in WriteOutcomes :
        /\ trans' = IF o.ok
                    THEN <<WriteTx(address, <<CONFIGURATION, c>>, o)>>
                    ELSE <<WriteTx(address, <<CONFIGURATION, c>>, o),
                           WriteTx(address, <<CONFIGURATION, c>>, o2)>>
        /\ IF o.ok \/ o2.ok
           THEN /\ config' = c
                /\ devConfig' = <<c>>
                /\ result' = Ok(0)
           ELSE /\ result' = ErrorI2C(o2.err)
                /\ UNCHANGED <<config, devConfig>>

\* a slip that leaves the cached configuration stale after a good write
write_config_stale_cache(c) ==
    \E o \in WriteOutcomes :
        /\ trans' = <<WriteTx(address, <<CONFIGURATION, c>>, o)>>
        /\ devConfig' = IF o.ok THEN <<c>> ELSE devConfig
        /\ result' = IF o.ok THEN Ok(0) ELSE ErrorI2C(o.err)
        /\ UNCHANGED config

write_config(c) ==
    \E o \in WriteOutcomes :
        /\ trans' = <<WriteTx(address, <<CONFIGURATION, c>>, o)>>
        /\ IF o.ok
           THEN /\ config' = c
                /\ devConfig' = <<c>>
                /\ result' = Ok(0)
           ELSE /\ result' = ErrorI2C(o.err)
                /\ UNCHANGED <<config, devConfig>>

enable ==
    /\ ic = "Lm75"
    /\ Returns
    /\ call' = Call("enable", "", 0)
    /\ write_config(with_low(config, SHUTDOWN))
    /\ UNCHANGED <<ic, slave, address, codec>>

\* a slip that inverts the shutdown bit
disable_toggles ==
    /\ ic = "Lm75"
    /\ Returns
    /\ call' = Call("disable", "", 0)
    /\ write_config(IF config % 2 = 1
                    THEN with_low(config, SHUTDOWN)
                    ELSE with_high(config, SHUTDOWN))
    /\ UNCHANGED <<ic, slave, address, codec>>

disable ==
    /\ ic = "Lm75"
    /\ Returns
    /\ call' = Call("disable", "", 0)
    /\ write_config(with_high(config, SHUTDOWN))
    /\ UNCHANGED <<ic, slave, address, codec>>

fault_queue_bits(c, fq) ==
    CASE fq = "_1" -> with_low(with_low(c, FAULT_QUEUE1), FAULT_QUEUE0)
      [] fq = "_2" -> with_high(with_low(c, FAULT_QUEUE1), FAULT_QUEUE0)
      [] fq = "_4" -> with_low(with_high(c, FAULT_QUEUE1), FAULT_QUEUE0)
      [] fq = "_6" -> with_high(with_high(c, FAULT_QUEUE1), FAULT_QUEUE0)

set_fault_queue(fq) ==
    /\ ic = "Lm75"
    /\ Returns
    /\ call' = Call("set_fault_queue", fq, 0)
    /\ write_config(fault_queue_bits(config, fq))
    /\ UNCHANGED <<ic, slave, address, codec>>

set_os_polarity(polarity) ==
    /\ ic = "Lm75"
    /\ Returns
    /\ call' = Call("set_os_polarity", polarity, 0)
    /\ write_config(IF polarity = "ActiveLow"
                    THEN with_low(config, OS_POLARITY)
                    ELSE with_high(config, OS_POLARITY))
    /\ UNCHANGED <<ic, slave, address, codec>>

set_os_mode(mode) ==
    /\ ic = "Lm75"
    /\ Returns
    /\ call' = Call("set_os_mode", mode, 0)
    /\ write_config(IF mode = "Comparator"
                    THEN with_low(config, COMP_INT)
                    ELSE with_high(config, COMP_INT))
    /\ UNCHANGED <<ic, slave, address, codec>>

\* the limits -55.0 and 125.0 of the threshold setters
TempLow == -55 * Scale
TempHigh == 125 * Scale

\* (a NaN argument passes both comparisons of the range test; it is neither
\* below nor above a limit and is not among the inputs)
\* temperature arguments, from Margin eighths of a degree below the low limit
\* to as much above the high limit: every grid point within that distance of
\* a limit, in between one point every 4.975 degrees, and 0.5
TempInputs ==
    {t \in (TempLow - Margin * (Scale \div 8))..(TempHigh + Margin * (Scale \div 8)) :
        \/ t % (5 * Scale - 1) = 0
        \/ t = Scale \div 2
        \/ t <= TempLow + Margin * (Scale \div 8)
        \/ t >= TempHigh - Margin * (Scale \div 8)}

\* a slip that checks the low limit only
temperature_invalid_low_only(t) == t < TempLow

\* temperature < -55.0 || temperature > 125.0
temperature_invalid(t) == t < TempLow \/ t > TempHigh

set_temperature(register, t) ==
    IF temperature_invalid(t)
    THEN /\ result' = InvalidInputData
         /\ trans' = <<>>
    ELSE LET r == convert_temp_to_register(t, ResolutionMask(ic))
         IN  \E o \in WriteOutcomes :
                /\ trans' = <<WriteTx(address, <<register, r[1], r[2]>>, o)>>
                /\ result' = IF o.ok THEN Ok(0) ELSE ErrorI2C(o.err)

set_os_temperature(t) ==
    /\ ic = "Lm75"
    /\ Returns
    /\ call' = Call("set_os_temperature", "", t)
    /\ set_temperature(T_OS, t)
    /\ UNCHANGED <<ic, slave, address, config, devConfig, codec>>

set_hysteresis_temperature(t) ==
    /\ ic = "Lm75"
    /\ Returns
    /\ call' = Call("set_hysteresis_temperature", "", t)
    /\ set_temperature(T_HYST, t)
    /\ UNCHANGED <<ic, slave, address, config, devConfig, codec>>

read_temperature ==
    /\ ic = "Lm75"
    /\ Returns
    /\ call' = Call("read_temperature", "", 0)
    /\ \E o \in ReadOutcomes(TemperatureReplies) :
        /\ trans' = <<WriteReadTx(address, <<TEMPERATURE>>, 2, o)>>
        /\ result' = IF o.ok
                     THEN Ok(convert_temp_from_register(
                                o.reply[1], o.reply[2], ResolutionMask(ic)))
                     ELSE ErrorI2C(o.err)
    /\ UNCHANGED <<ic, slave, address, config, devConfig, codec>>

\* the argument is declared u8
SampleRateArgs == 0..(U8 - 1)

set_sample_rate(byte) ==
    /\ ic = "Pct2075"
    /\ Returns
    /\ call' = Call("set_sample_rate", "", byte)
    /\ \E o \in WriteOutcomes :
        /\ trans' = <<WriteTx(address, <<T_IDLE, byte>>, o)>>
        /\ result' = IF o.ok THEN Ok(0) ELSE ErrorI2C(o.err)
    /\ UNCHANGED <<ic, slave, address, config, devConfig, codec>>

read_sample_rate ==
    /\ ic = "Pct2075"
    /\ Returns
    /\ call' = Call("read_sample_rate", "", 0)
    /\ \E o \in ReadOutcomes(IdleReplies) :
        /\ trans' = <<WriteReadTx(address, <<T_IDLE>>, 1, o)>>
        /\ result' = IF o.ok
                     THEN Ok(convert_sample_rate_from_register(o.reply[1]))
                     ELSE ErrorI2C(o.err)
    /\ UNCHANGED <<ic, slave, address, config, devConfig, codec>>

\* the caller takes the result; the driver is ready for the next call
caller_continues ==
    /\ pc = "returned"
    /\ pc' = "ready"
    /\ call' = [call EXCEPT !.op = "none", !.sel = "", !.num = 0,
                            !.cfg0 = config, !.dev0 = devConfig]
    /\ result' = NoResult
    /\ trans' = <<>>
    /\ UNCHANGED <<ic, slave, address, config, devConfig, codec>>

Next ==
    \/ enable
    \/ disable
    \/ \E fq \in FaultQueues : set_fault_queue(fq)
    \/ \E polarity \in OsPolarities : set_os_polarity(polarity)
    \/ \E mode \in OsModes : set_os_mode(mode)
    \/ \E t \in TempInputs : set_os_temperature(t)
    \/ \E t \in TempInputs : set_hysteresis_temperature(t)
    \/ read_temperature
    \/ \E byte \in SampleRateArgs : set_sample_rate(byte)
    \/ read_sample_rate
    \/ caller_continues

Spec == Init /\ [][Next]_vars

(***************************************************************************)
(* Harness for the conversion functions: it applies decode to every byte   *)
(* pair and encode to every temperature of the grid, at each resolution,   *)
(* and then the opposite conversion to the result.                         *)
(***************************************************************************)
Bytes == 0..(U8 - 1)
CodecTemps == (-CodecSpan * Scale)..(CodecSpan * Scale)

InitCodec ==
    /\ ic = "Lm75"
    /\ slave = [tag |-> "Default", a2 |-> FALSE, a1 |-> FALSE, a0 |-> FALSE]
    /\ address = addr(slave, DEVICE_BASE_ADDRESS)
    /\ config = ConfigDefault
    /\ devConfig = <<>>
    /\ call = NoCall
    /\ result = NoResult
    /\ trans = <<>>
    /\ pc = "ready"
    /\ codec = CodecIdle

driver == <<ic, slave, address, config, devConfig, call, result, trans, pc>>

decode_bytes ==
    /\ codec.stage = "idle"
    /\ \E mask \in ResolutionMasks, msb \in Bytes, lsb \in Bytes :
        codec' = [codec EXCEPT !.stage = "decoded", !.mask = mask,
                               !.msb = msb, !.lsb = lsb,
                               !.temp = convert_temp_from_register(msb, lsb, mask)]
    /\ UNCHANGED driver

encode_back ==
    /\ codec.stage = "decoded"
    /\ LET r == convert_temp_to_register(codec.temp, codec.mask)
       IN  codec' = [codec EXCEPT !.stage = "decoded_encoded",
                                  !.msb2 = r[1], !.lsb2 = r[2]]
    /\ UNCHANGED driver

encode_temp ==
    /\ codec.stage = "idle"
    /\ \E mask \in ResolutionMasks, t \in CodecTemps :
        LET r == convert_temp_to_register(t, mask)
        IN  codec' = [codec EXCEPT !.stage = "encoded", !.mask = mask,
                                   !.temp = t, !.msb = r[1], !.lsb = r[2]]
    /\ UNCHANGED driver

decode_back ==
    /\ codec.stage = "encoded"
    /\ codec' = [codec EXCEPT !.stage = "encoded_decoded",
                              !.temp2 = convert_temp_from_register(
                                            codec.msb, codec.lsb, codec.mask)]
    /\ UNCHANGED driver

NextCodec ==
    \/ decode_bytes
    \/ encode_back
    \/ encode_temp
    \/ decode_back

SpecCodec == InitCodec /\ [][NextCodec]_vars

(***************************************************************************)
(* Harness for the sample-rate period validator: it applies the validator  *)
(* to every 16-bit period.                                                 *)
(***************************************************************************)
Periods == 0..(U16 - 1)

check_period ==
    /\ codec.stage = "idle"
    /\ \E period \in Periods :
        codec' = [codec EXCEPT !.stage = "period_checked",
                               !.period = period,
                               !.valid = check_period_is_appropriate(period)]
    /\ UNCHANGED driver

NextSampleRate == check_period

SpecSampleRate == InitCodec /\ [][NextSampleRate]_vars

(***************************************************************************)
(* Properties.                                                             *)
(***************************************************************************)
ConfigOps == {"enable", "disable", "set_fault_queue", "set_os_polarity", "set_os_mode"}
TemperatureSetters == {"set_os_temperature", "set_hysteresis_temperature"}

\* C1: set_os_temperature and set_hysteresis_temperature called with a
\* temperature below -55.0 or above 125.0 return InvalidInputData, issue no
\* bus transaction, and leave the cached configuration and the bus as they
\* were before the call.
C1_InvalidTemperatureRejected ==
    (/\ pc = "returned"
     /\ call.op \in TemperatureSetters
     /\ (call.num < -55 * Scale \/ call.num > 125 * Scale))
    => (/\ result = InvalidInputData
        /\ trans = <<>>
        /\ config = call.cfg0
        /\ devConfig = call.dev0)

\* 125.5 is rejected on a driver whose configuration has been changed
C1_Witness ==
    /\ pc = "returned"
    /\ call.op = "set_os_temperature"
    /\ call.num = 125 * Scale + Scale \div 2
    /\ result = InvalidInputData
    /\ trans = <<>>
    /\ config = 9
    /\ devConfig = <<9>>

\* C2: set_sample_rate called with a period outside [100, 3100] or not a
\* multiple of 100 returns InvalidInputData and issues no bus transaction.
C2_InvalidSampleRateRejected ==
    (/\ pc = "returned"
     /\ call.op = "set_sample_rate"
     /\ (call.num < 100 \/ call.num > 3100 \/ call.num % 100 # 0))
    => (result = InvalidInputData /\ trans = <<>>)

\* C3: a configuration setter issues one write of the configuration byte; if
\* the write fails the call returns the error and the cached configuration is
\* the one the call started from; the cached configuration becomes the
\* written byte only when the write succeeded.
C3_ConfigCommittedOnlyOnSuccess ==
    (pc = "returned" /\ call.op \in ConfigOps)
    => (/\ Len(trans) = 1
        /\ trans[1].bytes[1] = 1
        /\ (trans[1].ok => (result.kind = "Ok" /\ config = trans[1].bytes[2]))
        /\ (~trans[1].ok => (result.kind = "I2C" /\ config = call.cfg0)))

\* a failed write of a byte that differs from the cached configuration
C3_Witness ==
    /\ pc = "returned"
    /\ call.op = "disable"
    /\ call.cfg0 = 8
    /\ trans = <<WriteTx(address, <<1, 9>>, [ok |-> FALSE, err |-> 1, reply |-> <<>>])>>
    /\ result.kind = "I2C"
    /\ config = 8

\* C4: when the transport fails a transaction with error e, the facade call
\* that issued it returns the bus-error case carrying that same e; it returns
\* neither success nor InvalidInputData.
C4_BusErrorPropagated ==
    pc = "returned"
    => \A i \in 1..Len(trans) :
          ~trans[i].ok => (result.kind = "I2C" /\ result.err = trans[i].err)

\* a failed combined write-then-read whose error comes back to the caller
C4_Witness ==
    /\ pc = "returned"
    /\ call.op = "read_temperature"
    /\ Len(trans) = 1
    /\ ~trans[1].ok
    /\ trans[1].err = NumBusErrors
    /\ result = [kind |-> "I2C", err |-> NumBusErrors, val |-> 0]

\* degrees and fractions of a degree in grid units
Deg(n) == n * Scale
Half == Scale \div 2
Eighth == Scale \div 8
Abs(x) == IF x < 0 THEN -x ELSE x

Is9Bit == codec.mask = RESOLUTION_9BIT
Is11Bit == codec.mask = RESOLUTION_11BIT

\* C5: for every byte pair and each resolution, decode equals signed8(msb)
\* plus a non-negative fraction: the top bit of lsb times 0.5 in 9-bit mode,
\* the top three bits of lsb times 0.125 in 11-bit mode; the result is never
\* below -128.0, which is reached only at msb = 0x80 with zero fraction bits.
C5_DecodeFormula ==
    codec.stage = "decoded"
    => LET frac == IF Is9Bit
                   THEN (codec.lsb \div 128) * Half
                   ELSE (codec.lsb \div 32) * Eighth
       IN  /\ codec.temp = AsI8(codec.msb) * Scale + frac
           /\ codec.temp >= Deg(-128)
           /\ (codec.temp = Deg(-128) <=> (codec.msb = 128 /\ frac = 0))

\* C6: for all register pairs and each resolution, decoding the pair and
\* encoding the result at the same resolution reproduces both original bytes.
C6_RoundTripAllBytes ==
    codec.stage = "decoded_encoded"
    => (codec.msb2 = codec.msb /\ codec.lsb2 = codec.lsb)

\* C6 (amended): decoding a pair and encoding the result at the same
\* resolution reproduces msb and the bits of lsb that the low byte of the
\* resolution mask selects; every other bit of lsb comes back as 0.
C6_RoundTripMaskedBytes ==
    codec.stage = "decoded_encoded"
    => (/\ codec.msb2 = codec.msb
        /\ codec.lsb2 = BitAnd(codec.lsb, codec.mask % 256))

\* a negative reading with bits outside the mask: (0xFF, 0b1010_0101) at
\* 11-bit resolution comes back as (0xFF, 0b1010_0000)
C6_Witness ==
    /\ codec.stage = "decoded_encoded"
    /\ Is11Bit
    /\ codec.msb = 255 /\ codec.lsb = 165
    /\ codec.temp = Deg(-1) + 5 * Eighth
    /\ codec.msb2 = 255 /\ codec.lsb2 = 160

\* C7: encode(0.5) = (0b0000_0000, 1), encode(-128.0) = (0b1000_0000, 0),
\* encode(127.5) = (0b0111_1111, 1).
C7_EncodeTableLiteral ==
    codec.stage = "encoded"
    => (/\ (codec.temp = Half => <<codec.msb, codec.lsb>> = <<0, 1>>)
        /\ (codec.temp = Deg(-128) => <<codec.msb, codec.lsb>> = <<128, 0>>)
        /\ (codec.temp = Deg(127) + Half => <<codec.msb, codec.lsb>> = <<127, 1>>))

\* C7 (amended): encode(-128.0) = (0b1000_0000, 0); encode(0.5) has msb
\* 0b0000_0000 and encode(127.5) has msb 0b0111_1111; the half degree is
\* left-justified in the low byte, which is 0b1000_0000 at 11-bit resolution
\* and is never 1.
C7_EncodeTableLeftJustified ==
    codec.stage = "encoded"
    => (/\ (codec.temp = Deg(-128) => <<codec.msb, codec.lsb>> = <<128, 0>>)
        /\ (codec.temp = Half
               => (/\ codec.msb = 0
                   /\ codec.lsb # 1
                   /\ (Is11Bit => codec.lsb = 128)))
        /\ (codec.temp = Deg(127) + Half
               => (/\ codec.msb = 127
                   /\ codec.lsb # 1
                   /\ (Is11Bit => codec.lsb = 128))))

\* encode(127.5) at 11-bit resolution
C7_Witness ==
    /\ codec.stage = "encoded"
    /\ Is11Bit
    /\ codec.temp = Deg(127) + Half
    /\ codec.msb = 127 /\ codec.lsb = 128

\* C8: for every temperature t in [-55.0, 125.0] the value decoded from
\* encode(t) differs from t by at most half a step of the resolution: 0.25 at
\* 9-bit, 0.0625 at 11-bit.
C8_EncodeRoundsToNearest ==
    (/\ codec.stage = "encoded_decoded"
     /\ codec.temp >= Deg(-55) /\ codec.temp <= Deg(125))
    => IF Is9Bit
       THEN 2 * Abs(codec.temp2 - codec.temp) <= Half
       ELSE 2 * Abs(codec.temp2 - codec.temp) <= Eighth

\* C8 (amended): encode truncates, it does not round to nearest.  For every
\* temperature t in [-55.0, 125.0], at 11-bit resolution the value decoded
\* from encode(t) is t truncated toward zero to a multiple of 0.125: it lies
\* between 0 and t and differs from t by less than one step.  At 9-bit
\* resolution it differs from t by less than one degree.
C8_EncodeTruncates ==
    (/\ codec.stage = "encoded_decoded"
     /\ codec.temp >= Deg(-55) /\ codec.temp <= Deg(125))
    => IF Is9Bit
       THEN Abs(codec.temp2 - codec.temp) < Deg(1)
       ELSE /\ codec.temp2 % Eighth = 0
            /\ Abs(codec.temp2 - codec.temp) < Eighth
            /\ (codec.temp >= 0 => (0 <= codec.temp2 /\ codec.temp2 <= codec.temp))
            /\ (codec.temp <= 0 => (codec.temp <= codec.temp2 /\ codec.temp2 <= 0))

\* -2.6 encodes at 11-bit resolution to the register pair of -2.5
C8_Witness ==
    /\ codec.stage = "encoded_decoded"
    /\ Is11Bit
    /\ codec.temp = Deg(-2) - 24
    /\ codec.msb = 253 /\ codec.lsb = 128
    /\ codec.temp2 = Deg(-2) - Half

\* C9: for the default selector the bus address is the base 0b100_1000; for
\* every pin triple (a2, a1, a0) it is base | (a2<<2) | (a1<<1) | a0, so that
\* (true, true, true) gives 0b100_1111, (false, false, false) gives the base,
\* the eight triples give eight distinct addresses, and every address fits
\* in 7 bits.
C9_AddressResolution ==
    /\ (slave.tag = "Default" => address = 72)
    /\ (slave.tag = "Alternative"
          => address = 72 + 4 * BoolToU8(slave.a2) + 2 * BoolToU8(slave.a1)
                          + BoolToU8(slave.a0))
    /\ (slave = [tag |-> "Alternative", a2 |-> TRUE, a1 |-> TRUE, a0 |-> TRUE]
          => address = 79)
    /\ (slave = [tag |-> "Alternative", a2 |-> FALSE, a1 |-> FALSE, a0 |-> FALSE]
          => address = 72)
    /\ address < 128
    /\ Cardinality({addr(s, DEVICE_BASE_ADDRESS) :
                        s \in {x \in SlaveAddrs : x.tag = "Alternative"}}) = 8
    /\ \A i \in 1..Len(trans) : trans[i].addr = address

\* a driver built with pins (true, false, true) addresses the bus at 0b100_1101
C9_Witness ==
    /\ slave = [tag |-> "Alternative", a2 |-> TRUE, a1 |-> FALSE, a0 |-> TRUE]
    /\ address = 77
    /\ pc = "returned"
    /\ Len(trans) = 1
    /\ trans[1].addr = 77

\* the value of the fault-queue field, bits 4:3
FaultQueueField(fq) ==
    CASE fq = "_1" -> 0 [] fq = "_2" -> 1 [] fq = "_4" -> 2 [] fq = "_6" -> 3

\* C10: each configuration setter writes [0x01, b] where its own field of b
\* carries the requested value whatever the cached configuration was:
\* shutdown is bit 0 (enable 0, disable 1), OS mode bit 1 (Comparator 0,
\* Interrupt 1), OS polarity bit 2 (ActiveLow 0, ActiveHigh 1), the fault
\* queue bits 4:3 (_1 00, _2 01, _4 10, _6 11); from the default
\* configuration the bytes are 0x00/0x01, 0x00/0x02, 0x00/0x04 and
\* 0x00/0x08/0x10/0x18.
C10_SetterWritesOwnField ==
    (pc = "returned" /\ call.op \in ConfigOps)
    => /\ Len(trans) = 1
       /\ trans[1].kind = "write"
       /\ Len(trans[1].bytes) = 2
       /\ trans[1].bytes[1] = 1
       /\ LET b == trans[1].bytes[2]
              fresh == call.cfg0 = 0
          IN  /\ (call.op = "enable" => (Bit(b, 0) = 0 /\ (fresh => b = 0)))
              /\ (call.op = "disable" => (Bit(b, 0) = 1 /\ (fresh => b = 1)))
              /\ (call.op = "set_os_mode"
                    => LET v == IF call.sel = "Interrupt" THEN 1 ELSE 0
                       IN  Bit(b, 1) = v /\ (fresh => b = 2 * v))
              /\ (call.op = "set_os_polarity"
                    => LET v == IF call.sel = "ActiveHigh" THEN 1 ELSE 0
                       IN  Bit(b, 2) = v /\ (fresh => b = 4 * v))
              /\ (call.op = "set_fault_queue"
                    => LET v == FaultQueueField(call.sel)
                       IN  (b \div 8) % 4 = v /\ (fresh => b = 8 * v))

\* set_fault_queue(_4) on a cached configuration of 0b0_1111 writes 0b1_0111
C10_Witness ==
    /\ pc = "returned"
    /\ call.op = "set_fault_queue"
    /\ call.sel = "_4"
    /\ call.cfg0 = 15
    /\ trans[1].bytes = <<1, 23>>

\* the register pair of t with the fraction left-justified in the low byte,
\* of which the 9-bit resolution keeps bit 7
LeftJustified9(t) ==
    LET w == (TruncDiv(t * 8, Scale) * 32) % 65536
    IN  <<w \div 256, ((w % 256) \div 128) * 128>>

\* C11: for every temperature t with -55.0 <= t <= 125.0, set_os_temperature
\* issues exactly one write [0x03, msb, lsb] and set_hysteresis_temperature
\* exactly one write [0x02, msb, lsb], (msb, lsb) being encode(t) with the
\* fraction left-justified in the low byte: 0.5 -> (0x00, 0b1000_0000),
\* -55.0 -> (0b1100_1001, 0), 125.0 -> (0b0111_1101, 0).
C11_TemperatureWrite ==
    (/\ pc = "returned"
     /\ call.op \in TemperatureSetters
     /\ call.num >= Deg(-55) /\ call.num <= Deg(125))
    => /\ Len(trans) = 1
       /\ trans[1].kind = "write"
       /\ Len(trans[1].bytes) = 3
       /\ trans[1].bytes[1] = (IF call.op = "set_os_temperature" THEN 3 ELSE 2)
       /\ <<trans[1].bytes[2], trans[1].bytes[3]>> = LeftJustified9(call.num)
       /\ (call.num = Half => <<trans[1].bytes[2], trans[1].bytes[3]>> = <<0, 128>>)
       /\ (call.num = Deg(-55) => <<trans[1].bytes[2], trans[1].bytes[3]>> = <<201, 0>>)
       /\ (call.num = Deg(125) => <<trans[1].bytes[2], trans[1].bytes[3]>> = <<125, 0>>)

\* C12: set_sample_rate called with a valid period p in milliseconds (a
\* multiple of 100 within [100, 3100]) issues exactly one write
\* [0x04, p / 100] and returns success when the write succeeds.
C12_SampleRateWrite ==
    (/\ pc = "returned"
     /\ call.op = "set_sample_rate"
     /\ call.num >= 100 /\ call.num <= 3100 /\ call.num % 100 = 0)
    => /\ Len(trans) = 1
       /\ trans[1].kind = "write"
       /\ trans[1].bytes = <<4, call.num \div 100>>
       /\ (trans[1].ok => result.kind = "Ok")

\* C13: read_sample_rate issues one write-then-read of [0x04] and returns
\* (b & 0b0001_1111) * 100 for the reply byte b, whatever its upper three
\* bits; the result is a multiple of 100 within [100, 3100].
C13_SampleRateReadInRange ==
    (pc = "returned" /\ call.op = "read_sample_rate")
    => /\ Len(trans) = 1
       /\ trans[1].kind = "write_read"
       /\ trans[1].bytes = <<4>>
       /\ (trans[1].ok
             => /\ result = Ok((trans[1].reply[1] % 32) * 100)
                /\ result.val % 100 = 0
                /\ result.val >= 100 /\ result.val <= 3100)

\* C13 (amended): read_sample_rate issues one write-then-read of [0x04] and
\* returns (b & 0b0001_1111) * 100 for the reply byte b, whatever its upper
\* three bits; the result is a multiple of 100 within [0, 3100], and it is 0
\* when the low five bits of b are 0.
C13_SampleRateRead ==
    (pc = "returned" /\ call.op = "read_sample_rate")
    => /\ Len(trans) = 1
       /\ trans[1].kind = "write_read"
       /\ trans[1].bytes = <<4>>
       /\ trans[1].read = 1
       /\ (trans[1].ok
             => /\ result = Ok((trans[1].reply[1] % 32) * 100)
                /\ result.val % 100 = 0
                /\ result.val >= 0 /\ result.val <= 3100
                /\ (trans[1].reply[1] % 32 = 0 => result.val = 0))

\* the reply 0b1111_0000 reads as 1600
C13_Witness ==
    /\ pc = "returned"
    /\ call.op = "read_sample_rate"
    /\ trans[1].ok
    /\ trans[1].reply = <<240>>
    /\ result = Ok(1600)

\* C14: read_temperature issues exactly one combined write-then-read with
\* register pointer [0x00] reading two bytes and returns the decoding of the
\* reply at the variant's resolution; on the base variant that is the 9-bit
\* decoding: signed8(reply[0]) plus 0.5 times bit 7 of reply[1], so that
\* (0b1110_0111, 0b1010_0101) yields -24.5 and bits 6:0 of the second byte do
\* not affect the result.
C14_ReadTemperature ==
    (pc = "returned" /\ call.op = "read_temperature")
    => /\ Len(trans) = 1
       /\ trans[1].kind = "write_read"
       /\ trans[1].bytes = <<0>>
       /\ trans[1].read = 2
       /\ (trans[1].ok
             => /\ result = Ok(AsI8(trans[1].reply[1]) * Scale
                                 + (trans[1].reply[2] \div 128) * Half)
                /\ (trans[1].reply = <<231, 165>> => result.val = Deg(-24) - Half))

\* C15: set_sample_rate and read_sample_rate are valid only on a PCT2075
\* instance, and a base instance never issues a transaction on the idle
\* register 0x04; every other operation (enable, disable, set_fault_queue,
\* set_os_polarity, set_os_mode, set_os_temperature,
\* set_hysteresis_temperature, read_temperature) is valid on both variants.
C15_OperationsByVariant ==
    /\ ((pc = "returned" /\ call.op \in {"set_sample_rate", "read_sample_rate"})
          => ic = "Pct2075")
    /\ (ic = "Lm75" => \A i \in 1..Len(trans) : trans[i].bytes[1] # 4)
    /\ (pc = "ready"
          => /\ (ENABLED read_sample_rate <=> ic = "Pct2075")
             /\ (ENABLED set_sample_rate(1) <=> ic = "Pct2075")
             /\ ENABLED enable
             /\ ENABLED disable
             /\ ENABLED set_fault_queue("_1")
             /\ ENABLED set_os_polarity("ActiveLow")
             /\ ENABLED set_os_mode("Comparator")
             /\ ENABLED set_os_temperature(0)
             /\ ENABLED set_hysteresis_temperature(0)
             /\ ENABLED read_temperature)

\* the bits of the cached configuration that a setter owns
FieldMask(op) ==
    CASE op \in {"enable", "disable"} -> 1
      [] op = "set_os_mode" -> 2
      [] op = "set_os_polarity" -> 4
      [] op = "set_fault_queue" -> 24

\* C16: over any sequence of operations, a successful configuration setter
\* changes only the bits of its own field in the cached configuration
\* (enable/disable bit 0, set_os_mode bit 1, set_os_polarity bit 2,
\* set_fault_queue bits 4:3); set_os_temperature,
\* set_hysteresis_temperature, read_temperature, set_sample_rate and
\* read_sample_rate never change the cached configuration; no operation
\* changes the bus address fixed at construction.
C16_Frame ==
    [][/\ address' = address
       /\ ((pc' = "returned" /\ call'.op \in ConfigOps /\ result'.kind = "Ok")
             => BitAnd(config', 255 - FieldMask(call'.op))
                  = BitAnd(config, 255 - FieldMask(call'.op)))
       /\ (call'.op \notin ConfigOps => config' = config)]_vars

\* set_os_polarity(ActiveHigh) on 0b1_1011 leaves 0b1_1111
C16_Witness ==
    /\ pc = "returned"
    /\ call.op = "set_os_polarity"
    /\ call.sel = "ActiveHigh"
    /\ call.cfg0 = 27
    /\ result.kind = "Ok"
    /\ config = 31

\* C17: a freshly constructed driver is enabled (cached shutdown bit 0);
\* a successful enable leaves the cached shutdown bit 0, a successful disable
\* leaves it 1, and nothing else changes it, so the bit is 1 exactly when the
\* most recent successful call among enable and disable was disable; enable
\* and disable set the bit rather than invert it: repeated, either one writes
\* the cached byte again and leaves the state unchanged.
C17_ShutdownState ==
    /\ Bit(config, 0) = 0
    /\ [][LET done(op) == pc' = "returned" /\ call'.op = op
              ok(op) == done(op) /\ result'.kind = "Ok"
          IN  /\ (ok("enable") => Bit(config', 0) = 0)
              /\ (ok("disable") => Bit(config', 0) = 1)
              /\ ((~ok("enable") /\ ~ok("disable"))
                    => Bit(config', 0) = Bit(config, 0))
              /\ ((done("enable") /\ Bit(config, 0) = 0)
                    => (trans'[1].bytes[2] = config /\ config' = config))
              /\ ((done("disable") /\ Bit(config, 0) = 1)
                    => (trans'[1].bytes[2] = config /\ config' = config))]_vars

\* disable repeated on a disabled driver writes the cached byte again
C17_Witness ==
    /\ pc = "returned"
    /\ call.op = "disable"
    /\ call.cfg0 = 13
    /\ result.kind = "Ok"
    /\ trans[1].bytes = <<1, 13>>
    /\ config = 13

\* C18: every facade call that passes input validation issues exactly one
\* bus transaction (a write for setters, a write-then-read for reads),
\* whether the transaction succeeds or fails; a call rejected by input
\* validation issues none.
C18_OneTransactionPerCall ==
    pc = "returned"
    => IF result = InvalidInputData
       THEN trans = <<>>
       ELSE /\ Len(trans) = 1
            /\ trans[1].kind =
                 (IF call.op \in {"read_temperature", "read_sample_rate"}
                  THEN "write_read" ELSE "write")
            /\ result.kind = (IF trans[1].ok THEN "Ok" ELSE "I2C")

\* a failed configuration write is the only transaction of its call
C18_Witness ==
    /\ pc = "returned"
    /\ call.op = "set_os_mode"
    /\ result.kind = "I2C"
    /\ Len(trans) = 1
    /\ ~trans[1].ok

\* C19: check_period_is_appropriate returns Ok exactly for the periods
\* 100, 200, ..., 3100 and InvalidInputData for every other 16-bit value.
C19_PeriodValidator ==
    codec.stage = "period_checked"
    => IF \E k \in 1..31 : codec.period = 100 * k
       THEN codec.valid = Ok(0)
       ELSE codec.valid = InvalidInputData

\* C20: for each resolution and every temperature in [-128.0, 127.5] that
\* is a multiple of the resolution's step (0.5 at 9-bit, 0.125 at 11-bit),
\* decoding the encoded temperature gives the temperature back exactly, and
\* the encoded low byte has no bit outside the step's field (bit 7 at
\* 9-bit, bits 7:5 at 11-bit).
C20_EncodeDecodeRoundTrip ==
    (/\ codec.stage = "encoded_decoded"
     /\ codec.temp >= Deg(-128) /\ codec.temp <= Deg(127) + Half
     /\ codec.temp % (IF Is9Bit THEN Half ELSE Eighth) = 0)
    => (/\ codec.temp2 = codec.temp
        /\ codec.lsb % (IF Is9Bit THEN 128 ELSE 32) = 0)

\* C21: in every reachable state, whatever the mix of successful and failing
\* operations, the cached configuration byte is the byte of the most recent
\* successful write to configuration register 0x01, or 0 if no such write
\* has succeeded yet; so bits 7:5 of the cached configuration are always 0.
\* The step part ties the cache to the transactions themselves: a step
\* changes the cache only by a successful write to register 0x01, and then
\* to the byte written.
C21_CachedConfigIsLastWritten ==
    /\ [](/\ config = (IF devConfig = <<>> THEN 0 ELSE devConfig[1])
          /\ config \in 0..31)
    /\ [][IF /\ pc' = "returned"
             /\ trans' # <<>>
             /\ trans'[1].kind = "write"
             /\ trans'[1].ok
             /\ trans'[1].bytes[1] = CONFIGURATION
          THEN /\ config' = trans'[1].bytes[2]
               /\ devConfig' = <<trans'[1].bytes[2]>>
          ELSE UNCHANGED <<config, devConfig>>]_vars

\* a failed enable after 0b0_1101 was written keeps 0b0_1101 cached
C21_Witness ==
    /\ pc = "returned"
    /\ call.op = "enable"
    /\ result.kind = "I2C"
    /\ trans[1].bytes = <<1, 12>>
    /\ devConfig = <<13>>
    /\ config = 13

TypeOK ==
    /\ config \in 0..(U8 - 1)
    /\ address \in 0..127
    /\ Len(trans) <= 1

====
